---- MODULE Spec2Model ----
(***************************************************************************)
(* Model of "Labo 5/elim_gaussiana.py": LU factorisation by Gaussian       *)
(* elimination without pivoting (elim_gaussiana) and its driver (main).    *)
(*                                                                         *)
(* Numbers.  A float64 is modelled as an extended rational <<num, den>>:   *)
(*   den > 0, gcd(num, den) = 1   a finite value num/den                   *)
(*   <<1, 0>>, <<-1, 0>>          +inf, -inf                               *)
(*   <<0, 0>>                     NaN                                      *)
(* The operators follow IEEE-754 for the special values (x/0 = +-inf,      *)
(* 0/0 = inf-inf = 0*inf = NaN, NaN != 0); finite results are exact, so    *)
(* rounding and overflow are not modelled.  Inputs hold finite values      *)
(* without negative zero; elimination then never produces a negative zero  *)
(* pivot, so the sign of x/0 is the sign of x.                             *)
(*                                                                         *)
(* Arrays.  numpy arrays are mutable objects, so matrices live in a heap   *)
(* (address -> matrix) and the program variables A, Ac hold addresses.     *)
(* A matrix is a function [0..m-1 -> [0..n-1 -> number]] (0-based, as in   *)
(* the source).                                                            *)
(***************************************************************************)
EXTENDS Integers, Sequences, FiniteSets, TLC

\* ------------------------------------------------------------------ bounds
\* Largest row/column count of the matrices the test caller passes.
MaxDim == 3
\* Entries of those matrices are the integers -MaxVal..MaxVal.
MaxVal == 1

\* ------------------------------------------------------- extended rationals
Abs(x) == IF x < 0 THEN -x ELSE x

Sign(x) == IF x < 0 THEN -1 ELSE IF x > 0 THEN 1 ELSE 0

RECURSIVE Gcd(_, _)
Gcd(a, b) == IF b = 0 THEN a ELSE Gcd(b, a % b)

\* Canonical form of the quotient num/den of two integers.
Norm(num, den) ==
    IF den = 0 THEN <<Sign(num), 0>>
    ELSE LET g == Gcd(Abs(num), Abs(den))
             s == IF den < 0 THEN -1 ELSE 1
         IN  <<(s * num) \div g, (s * den) \div g>>

Num(z) == <<z, 1>>

Zero == <<0, 1>>
One == <<1, 1>>
NaN == <<0, 0>>
PosInf == <<1, 0>>
NegInf == <<-1, 0>>

IsFinite(x) == x[2] # 0
IsNaN(x) == x = NaN

\* x != 0 on floats: NaN and the infinities differ from 0.
NonZero(x) == ~(IsFinite(x) /\ x[1] = 0)

Neg(x) == <<-x[1], x[2]>>

FAbs(x) == <<Abs(x[1]), x[2]>>

Mul(a, b) == Norm(a[1] * b[1], a[2] * b[2])

FSub(a, b) ==
    IF IsFinite(a) /\ IsFinite(b) THEN Norm(a[1] * b[2] - b[1] * a[2], a[2] * b[2])
    ELSE IF IsNaN(a) \/ IsNaN(b) THEN NaN
    ELSE IF IsFinite(b) THEN a
    ELSE IF IsFinite(a) THEN Neg(b)
    ELSE IF a = b THEN NaN
    ELSE a

FAdd(a, b) == FSub(a, Neg(b))

\* a / b as numpy's float64 true division (a warning, never an exception).
FDiv(a, b) ==
    IF IsNaN(a) \/ IsNaN(b) THEN NaN
    ELSE IF IsFinite(a) /\ IsFinite(b) THEN Norm(a[1] * b[2], a[2] * b[1])
    ELSE IF IsFinite(a) THEN Zero
    ELSE IF IsFinite(b) THEN <<a[1] * (IF b[1] < 0 THEN -1 ELSE 1), 0>>
    ELSE NaN

\* a <= b on floats (False when either is NaN).
FLeq(a, b) ==
    IF IsNaN(a) \/ IsNaN(b) THEN FALSE
    ELSE IF IsFinite(a) /\ IsFinite(b) THEN a[1] * b[2] <= b[1] * a[2]
    ELSE IF a = b THEN TRUE
    ELSE a = NegInf \/ b = PosInf

FMax(a, b) ==
    IF IsNaN(a) \/ IsNaN(b) THEN NaN
    ELSE IF FLeq(a, b) THEN b
    ELSE a

\* ---------------------------------------------------------------- matrices
Rows(M) == Cardinality(DOMAIN M)

Cols(M) == Cardinality(DOMAIN M[0])

\* Sum and maximum of f(0), ..., f(cnt - 1), folded left to right.
RECURSIVE FSum(_, _)
FSum(f, cnt) == IF cnt = 0 THEN Zero ELSE FAdd(FSum(f, cnt - 1), f[cnt - 1])

RECURSIVE FMaxOf(_, _)
FMaxOf(f, cnt) == IF cnt = 1 THEN f[0] ELSE FMax(FMaxOf(f, cnt - 1), f[cnt - 1])

np_eye(sz) == [r \in 0..sz-1 |-> [c \in 0..sz-1 |-> IF r = c THEN One ELSE Zero]]

np_ones(rs, cs) == [r \in 0..rs-1 |-> [c \in 0..cs-1 |-> One]]

\* Mutation of np_tril: the mask is multiplied in (M * tri), so an inf or NaN
\* outside the band turns into NaN instead of 0.
np_tril_multiplied(M, d) ==
    [r \in DOMAIN M |-> [c \in DOMAIN M[r] |->
        Mul(M[r][c], IF c <= r + d THEN One ELSE Zero)]]

\* np.tril(M, d): where(c <= r + d, M, 0); the masked entries are replaced,
\* not multiplied, so an inf or NaN above the band becomes 0.
np_tril(M, d) ==
    [r \in DOMAIN M |-> [c \in DOMAIN M[r] |-> IF c <= r + d THEN M[r][c] ELSE Zero]]

\* np.triu(M): where(c <= r - 1, 0, M).
np_triu(M) ==
    [r \in DOMAIN M |-> [c \in DOMAIN M[r] |-> IF c <= r - 1 THEN Zero ELSE M[r][c]]]

MatAdd(X, Y) == [r \in DOMAIN X |-> [c \in DOMAIN X[r] |-> FAdd(X[r][c], Y[r][c])]]

MatSub(X, Y) == [r \in DOMAIN X |-> [c \in DOMAIN X[r] |-> FSub(X[r][c], Y[r][c])]]

\* X @ Y
MatMul(X, Y) ==
    [r \in DOMAIN X |-> [c \in DOMAIN Y[0] |->
        FSum([t \in DOMAIN Y |-> Mul(X[r][t], Y[t][c])], Rows(Y))]]

\* np.linalg.norm(X, 1): the largest column sum of absolute values.
norm_1(X) ==
    FMaxOf([c \in DOMAIN X[0] |-> FSum([r \in DOMAIN X |-> FAbs(X[r][c])], Rows(X))],
           Cols(X))

\* np.max(np.sum(np.abs(X), axis=1)): the largest row sum of absolute values.
norm_inf(X) ==
    FMaxOf([r \in DOMAIN X |-> FSum([c \in DOMAIN X[r] |-> FAbs(X[r][c])], Cols(X))],
           Rows(X))

\* np.allclose(x, 0) with the default atol = 1e-8: |x| <= 1e-8.
allclose0(x) ==
    /\ IsFinite(x)
    /\ (x[1] = 0 \/ x[2] \div Abs(x[1]) >= 100000000)

\* A.copy(): a new array with the same entries at a fresh address.
Fresh(h) == CHOOSE a \in 1..(Cardinality(DOMAIN h) + 1) : a \notin DOMAIN h

\* Mutation of copy: Ac = A, the working "copy" is the caller's array itself.
copy_alias(h, a) == a

\* The address A.copy() returns: never the address of A itself.
copy(h, a) == Fresh(h)

Alloc(h, a, M) == [x \in DOMAIN h \cup {a} |-> IF x = a THEN M ELSE h[x]]

Free(h, a) == [x \in DOMAIN h \ {a} |-> h[x]]

\* Mutation of SetItem: the indices are swapped, Ac[c][r] = v.
SetItem_transposed(h, a, r, c, v) == [h EXCEPT ![a][c][r] = v]

\* Ac[r][c] = v on the array at address a.
SetItem(h, a, r, c, v) == [h EXCEPT ![a][r][c] = v]

\* ------------------------------------------------------------------- state
VARIABLES
    heap,      \* address -> matrix: the numpy arrays that are alive
    caller,    \* "none", "main" (the driver) or "test" (a caller passing any matrix)
    pc,        \* position of the running code
    A,         \* elim_gaussiana's parameter: the address of the caller's array
    Ac,        \* address of the working copy (0: unbound)
    m,         \* row count (-1: unbound)
    n,         \* column count (-1: unbound)
    i,         \* pivot column (last value of range(0, n))
    j,         \* row below the pivot (last value of range(i + 1, m))
    k,         \* column being updated (last value of range(i + 1, n))
    multi,     \* multiplier of the row pair in progress
    cant_op,   \* operation counter
    L,         \* lower factor (<<>>: unbound)
    U,         \* upper factor (<<>>: unbound)
    results,   \* values elim_gaussiana has returned to the caller, in order
    stdout,    \* what has been printed
    given,     \* history: entries of the caller's matrix when the call began
    hist       \* history: one record per division executed by the current call

vars == <<heap, caller, pc, A, Ac, m, n, i, j, k, multi, cant_op, L, U,
          results, stdout, given, hist>>

locals == <<Ac, m, n, i, j, k, multi, cant_op, L, U>>

\* Python's None, and an unbound matrix-valued local.
None == <<>>

\* The driver's matrix size.
DriverN == 7

EntryVals == {Num(z) : z \in -MaxVal..MaxVal}

Inputs ==
    UNION {[0..rs-1 -> [0..cs-1 -> EntryVals]] : rs \in 1..MaxDim, cs \in 1..MaxDim}

\* B = np.eye(n) - np.tril(np.ones((n, n)), -1); B[:n, n-1] = 1
DriverB ==
    LET B0 == MatSub(np_eye(DriverN), np_tril(np_ones(DriverN, DriverN), -1))
    IN  [r \in DOMAIN B0 |-> [c \in DOMAIN B0[r] |-> IF c = DriverN - 1 THEN One ELSE B0[r][c]]]

Init ==
    /\ heap = <<>>
    /\ caller = "none"
    /\ pc = "idle"
    /\ A = 0
    /\ Ac = 0
    /\ m = -1
    /\ n = -1
    /\ i = -1
    /\ j = -1
    /\ k = -1
    /\ multi = Zero
    /\ cant_op = 0
    /\ L = None
    /\ U = None
    /\ results = <<>>
    /\ stdout = <<>>
    /\ given = None
    /\ hist = <<>>

\* ----------------------------------------------------------------- callers
\* main, lines 49-54: build B, print it and call elim_gaussiana(B).
MainCall ==
    /\ pc = "idle"
    /\ caller' = "main"
    /\ heap' = Alloc(heap, Fresh(heap), DriverB)
    /\ A' = Fresh(heap)
    /\ stdout' = Append(stdout, <<"Matriz B", DriverB>>)
    /\ given' = DriverB
    /\ pc' = "enter"
    /\ UNCHANGED <<locals, results, hist>>

\* A caller other than main passes a matrix of its own.
TestCall ==
    /\ pc = "idle"
    /\ \E M \in Inputs :
        /\ heap' = Alloc(heap, Fresh(heap), M)
        /\ given' = M
    /\ caller' = "test"
    /\ A' = Fresh(heap)
    /\ pc' = "enter"
    /\ UNCHANGED <<locals, results, stdout, hist>>

\* The same caller calls again with the same array.
TestRepeat ==
    /\ pc = "returned"
    /\ caller = "test"
    /\ Len(results) = 1
    /\ given' = heap[A]
    /\ pc' = "enter"
    /\ UNCHANGED <<heap, caller, A, locals, results, stdout, hist>>

\* ---------------------------------------------------------- elim_gaussiana
\* Mutation of NotSquare: only a matrix with more rows than columns is rejected.
NotSquare_tall(rs, cs) == rs > cs

\* Line 14: m != n.
NotSquare(rs, cs) == rs # cs

\* Mutation of Multiplier: a zero pivot is guarded, the multiplier is then 0.
Multiplier_guarded(M, pi, pj) ==
    IF M[pi][pi] = Zero THEN Zero ELSE FDiv(M[pj][pi], M[pi][pi])

\* Mutation of Multiplier: the row's own diagonal entry is the divisor.
Multiplier_own_diagonal(M, pi, pj) == FDiv(M[pj][pi], M[pj][pj])

\* Line 23: Ac[j][i] / Ac[i][i] on the working copy M.
Multiplier(M, pi, pj) == FDiv(M[pj][pi], M[pi][pi])

\* Mutation of RowUpdate: the multiple of the pivot row is added.
RowUpdate_added(x, mu, p) == FAdd(x, Mul(mu, p))

\* Line 26: Ac[j][k] - (multi * Ac[i][k]).
RowUpdate(x, mu, p) == FSub(x, Mul(mu, p))

\* Mutation of CountUpdate: an update counts as one operation.
CountUpdate_single(cnt) == cnt + 1

\* Line 27: cant_op += 2.
CountUpdate(cnt) == cnt + 2

\* Mutation of CountDivision: the division is not counted.
CountDivision_forgotten(cnt) == cnt

\* Line 28: cant_op += 1.
CountDivision(cnt) == cnt + 1

\* Lines 9-12.
Enter ==
    /\ pc = "enter"
    /\ cant_op' = 0
    /\ m' = Rows(heap[A])
    /\ n' = Cols(heap[A])
    /\ Ac' = copy(heap, A)
    /\ heap' = Alloc(heap, Ac', heap[A])
    /\ hist' = <<>>
    /\ pc' = "check"
    /\ UNCHANGED <<caller, A, i, j, k, multi, L, U, results, stdout, given>>

\* Lines 14-16: not square, print and return None.
ShapeError ==
    /\ pc = "check"
    /\ NotSquare(m, n)
    /\ stdout' = Append(stdout, <<"Matriz no cuadrada">>)
    /\ results' = Append(results, None)
    /\ heap' = IF Ac = A THEN heap ELSE Free(heap, Ac)
    /\ Ac' = 0
    /\ m' = -1
    /\ n' = -1
    /\ cant_op' = 0
    /\ pc' = "returned"
    /\ UNCHANGED <<caller, A, i, j, k, multi, L, U, given, hist>>

\* Line 14 false: fall through to the loop of line 19.
ShapeOk ==
    /\ pc = "check"
    /\ ~NotSquare(m, n)
    /\ i' = -1
    /\ pc' = "for_i"
    /\ UNCHANGED <<heap, caller, A, Ac, m, n, j, k, multi, cant_op, L, U,
                   results, stdout, given, hist>>

\* Line 19: for i in range(0, n).
ForI ==
    /\ pc = "for_i"
    /\ IF i + 1 < n
       THEN /\ i' = i + 1
            /\ j' = i + 1
            /\ pc' = "for_j"
       ELSE /\ pc' = "extract"
            /\ UNCHANGED <<i, j>>
    /\ UNCHANGED <<heap, caller, A, Ac, m, n, k, multi, cant_op, L, U,
                   results, stdout, given, hist>>

\* Line 20: for j in range(i + 1, m).
ForJ ==
    /\ pc = "for_j"
    /\ IF j + 1 < m
       THEN /\ j' = j + 1
            /\ pc' = "test"
       ELSE /\ pc' = "for_i"
            /\ UNCHANGED j
    /\ UNCHANGED <<heap, caller, A, Ac, m, n, i, k, multi, cant_op, L, U,
                   results, stdout, given, hist>>

\* Line 21 false: the entry is already zero, nothing is done for this row.
Skip ==
    /\ pc = "test"
    /\ ~NonZero(heap[Ac][j][i])
    /\ pc' = "for_j"
    /\ UNCHANGED <<heap, caller, A, Ac, m, n, i, j, k, multi, cant_op, L, U,
                   results, stdout, given, hist>>

\* Lines 21 (true) and 23: multi = Ac[j][i] / Ac[i][i], whatever the pivot is.
\* k is set to one before the start of range(i + 1, n), as ForI does for j.
Divide ==
    /\ pc = "test"
    /\ NonZero(heap[Ac][j][i])
    /\ multi' = Multiplier(heap[Ac], i, j)
    /\ hist' = Append(hist, [i |-> i, j |-> j, entry |-> heap[Ac][j][i],
                             pivot |-> heap[Ac][i][i], multi |-> multi'])
    /\ k' = i
    /\ pc' = "for_k"
    /\ UNCHANGED <<heap, caller, A, Ac, m, n, i, j, cant_op, L, U,
                   results, stdout, given>>

\* Lines 25-27: one iteration of for k in range(i + 1, n).
Update ==
    /\ pc = "for_k"
    /\ k + 1 < n
    /\ k' = k + 1
    /\ heap' = SetItem(heap, Ac, j, k', RowUpdate(heap[Ac][j][k'], multi, heap[Ac][i][k']))
    /\ cant_op' = CountUpdate(cant_op)
    /\ UNCHANGED <<caller, pc, A, Ac, m, n, i, j, multi, L, U,
                   results, stdout, given, hist>>

\* Line 25 exhausted, then lines 28 and 31: count the division, store multi.
Store ==
    /\ pc = "for_k"
    /\ ~(k + 1 < n)
    /\ cant_op' = CountDivision(cant_op)
    /\ heap' = SetItem(heap, Ac, j, i, multi)
    /\ pc' = "for_j"
    /\ UNCHANGED <<caller, A, Ac, m, n, i, j, k, multi, L, U,
                   results, stdout, given, hist>>

\* Lines 42-43.
Extract ==
    /\ pc = "extract"
    /\ L' = MatAdd(np_tril(heap[Ac], -1), np_eye(Rows(heap[A])))
    /\ U' = np_triu(heap[Ac])
    /\ pc' = "return"
    /\ UNCHANGED <<heap, caller, A, Ac, m, n, i, j, k, multi, cant_op,
                   results, stdout, given, hist>>

\* Line 45: return L, U, cant_op; the frame and its working copy are dropped.
Return ==
    /\ pc = "return"
    /\ results' = Append(results, <<L, U, cant_op>>)
    /\ heap' = IF Ac = A THEN heap ELSE Free(heap, Ac)
    /\ Ac' = 0
    /\ m' = -1
    /\ n' = -1
    /\ i' = -1
    /\ j' = -1
    /\ k' = -1
    /\ multi' = Zero
    /\ cant_op' = 0
    /\ L' = None
    /\ U' = None
    /\ pc' = "returned"
    /\ UNCHANGED <<caller, A, stdout, given, hist>>

\* main, lines 54-60: unpack the result and print the report.
MainReport ==
    /\ pc = "returned"
    /\ caller = "main"
    /\ LET res == results[Len(results)]
           B == heap[A]
       IN  stdout' = stdout \o
               << <<"Matriz L", res[1]>>,
                  <<"Matriz U", res[2]>>,
                  <<"Cantidad de operaciones: ", res[3]>>,
                  <<"B=LU? ", IF allclose0(norm_1(MatSub(B, MatMul(res[1], res[2]))))
                              THEN "Si!" ELSE "No!">>,
                  <<"Norma infinito de U: ", norm_inf(res[2])>> >>
    /\ pc' = "done"
    /\ UNCHANGED <<heap, caller, A, locals, results, given, hist>>

Next ==
    \/ MainCall
    \/ TestCall
    \/ TestRepeat
    \/ Enter
    \/ ShapeError
    \/ ShapeOk
    \/ ForI
    \/ ForJ
    \/ Skip
    \/ Divide
    \/ Update
    \/ Store
    \/ Extract
    \/ Return
    \/ MainReport

Spec == Init /\ [][Next]_vars

\* ------------------------------------------------------------- properties
\* The value the last call returned.
Last == results[Len(results)]

\* The call in progress, or the last one, divided by a zero pivot.
ZeroDiv == \E x \in 1..Len(hist) : hist[x].pivot = Zero

\* Positions of a square matrix of the given size.
Idx(sz) == 0..sz-1

AllFinite(M) == \A r \in DOMAIN M : \A c \in DOMAIN M[r] : IsFinite(M[r][c])

\* C1: when a call on a square matrix returns without having divided by a
\* zero pivot, L @ U equals the caller's matrix entry for entry.
C1_LUReconstructs ==
    (pc = "returned" /\ Last # None /\ ~ZeroDiv) => MatMul(Last[1], Last[2]) = given

\* A 3x3 call that processed all three row pairs, one with a fractional
\* multiplier, and never divided by zero.
C1_Witness ==
    /\ pc = "returned"
    /\ Last # None
    /\ ~ZeroDiv
    /\ Len(hist) = 3
    /\ \E x \in 1..Len(hist) : hist[x].multi[2] > 1

\* C2: every returned L has ones on the diagonal and zeros above it, and every
\* returned U has zeros below the diagonal, also when Ac holds inf or NaN.
C2_Triangular ==
    (pc = "returned" /\ Last # None) =>
        LET sz == Rows(given)
        IN  \A r \in Idx(sz) : \A c \in Idx(sz) :
                /\ r = c => Last[1][r][c] = One
                /\ r < c => Last[1][r][c] = Zero
                /\ r > c => Last[2][r][c] = Zero

\* A returned factorisation whose U holds a NaN and an infinity.
C2_Witness ==
    /\ pc = "returned"
    /\ Last # None
    /\ \E r \in DOMAIN Last[2] : \E c \in DOMAIN Last[2][r] : IsNaN(Last[2][r][c])
    /\ \E r \in DOMAIN Last[2] : \E c \in DOMAIN Last[2][r] : Last[2][r][c] = PosInf

\* C3: on a non-square matrix the call only prints the shape error and
\* returns None: it never reaches the elimination loop, executes no division
\* or update, and binds no L, U or count to return.
C3_NonSquare ==
    (pc \notin {"idle", "enter"} /\ Rows(given) # Cols(given)) =>
        /\ pc \in {"check", "returned"}
        /\ hist = <<>>
        /\ cant_op = 0
        /\ L = None
        /\ U = None
        /\ pc = "check" => heap[Ac] = given
        /\ pc = "returned" =>
            /\ \A x \in 1..Len(results) : results[x] = None
            /\ Len(stdout) = Len(results)
            /\ \A x \in 1..Len(stdout) : stdout[x] = <<"Matriz no cuadrada">>

\* A call on a non-square matrix has returned.
C3_Witness ==
    /\ pc = "returned"
    /\ Rows(given) # Cols(given)
    /\ Len(results) = 1

\* C4: from the moment of the call on, the caller's array holds the entries
\* it had when the call began.
C4_InputUnchanged == pc # "idle" => heap[A] = given

\* The working copy has been overwritten with an infinity while the caller's
\* array is intact.
C4_Witness ==
    /\ pc = "for_j"
    /\ ZeroDiv
    /\ heap[Ac] # heap[A]
    /\ ~AllFinite(heap[Ac])

\* C5: a second call on the same array returns what the first call returned.
C5_Repeatable == Len(results) = 2 => results[1] = results[2]

\* Two calls on a square matrix have returned, each having processed pairs.
C5_Witness ==
    /\ Len(results) = 2
    /\ results[2] # None
    /\ Len(hist) >= 2

\* C6: the driver's run ends having never divided by a zero pivot, with
\* L @ U equal to B (and "Si!" printed), and with a finite positive infinity
\* norm of U printed.
C6_DriverCompletes ==
    (caller = "main" /\ pc = "done") =>
        /\ ~ZeroDiv
        /\ Len(results) = 1
        /\ Last # None
        /\ MatMul(Last[1], Last[2]) = DriverB
        /\ heap[A] = DriverB
        /\ stdout[5] = <<"B=LU? ", "Si!">>
        /\ stdout[6][1] = "Norma infinito de U: "
        /\ IsFinite(stdout[6][2])
        /\ stdout[6][2][1] > 0

\* The driver has printed its report.
C6_Witness ==
    /\ caller = "main"
    /\ pc = "done"
    /\ Len(stdout) = 6
    /\ Len(hist) > 0

\* 2 ** e
RECURSIVE Pow2(_)
Pow2(e) == IF e = 0 THEN 1 ELSE 2 * Pow2(e - 1)

\* C10: in the driver's run every pair (i, j) with i < j is processed with
\* pivot 1 and multiplier -1; L is the identity minus the strictly-lower
\* all-ones triangle; U is the identity except for its last column
\* 1, 2, 4, ..., 64; the count is 203 = n(n-1)(4n+1)/6; the norm printed is 64.
C10_DriverValues ==
    (caller = "main" /\ pc = "done") =>
        /\ {<<hist[x].i, hist[x].j>> : x \in 1..Len(hist)} =
               {p \in Idx(DriverN) \X Idx(DriverN) : p[1] < p[2]}
        /\ Len(hist) = (DriverN * (DriverN - 1)) \div 2
        /\ \A x \in 1..Len(hist) : hist[x].pivot = One /\ hist[x].multi = Num(-1)
        /\ Last[1] = [r \in Idx(DriverN) |-> [c \in Idx(DriverN) |->
                         IF r = c THEN One ELSE IF c < r THEN Num(-1) ELSE Zero]]
        /\ Last[2] = [r \in Idx(DriverN) |-> [c \in Idx(DriverN) |->
                         IF c = DriverN - 1 THEN Num(Pow2(r))
                         ELSE IF r = c THEN One ELSE Zero]]
        /\ Last[2][DriverN - 1][DriverN - 1] = Num(64)
        /\ Last[3] = 203
        /\ Last[3] = (DriverN * (DriverN - 1) * (4 * DriverN + 1)) \div 6
        /\ stdout[4] = <<"Cantidad de operaciones: ", 203>>
        /\ stdout[6] = <<"Norma infinito de U: ", Num(64)>>

\* The driver has printed a report after 21 divisions.
C10_Witness ==
    /\ caller = "main"
    /\ pc = "done"
    /\ Len(hist) = 21
    /\ Len(results) = 1

\* Sum of 2 * (sz - 1 - i) + 1 over the first cnt records of the history h.
RECURSIVE PairOps(_, _, _)
PairOps(h, cnt, sz) ==
    IF cnt = 0 THEN 0 ELSE PairOps(h, cnt - 1, sz) + 2 * (sz - 1 - h[cnt].i) + 1

\* C7: the count returned is the sum of 2 * (n - 1 - i) + 1 over the pairs
\* (i, j) whose entry Ac[j][i] was nonzero when visited; visiting a pair whose
\* entry is zero changes neither the count nor multi nor the matrix, and a
\* multiplier is computed only for a nonzero entry.
C7_OpCount ==
    [][ /\ pc' = "return" => cant_op' = PairOps(hist', Len(hist'), n')
        /\ (pc = "test" /\ heap[Ac][j][i] = Zero) =>
               /\ cant_op' = cant_op
               /\ multi' = multi
               /\ hist' = hist
               /\ heap' = heap
               /\ pc' = "for_j"
        /\ (pc = "test" /\ heap[Ac][j][i] # Zero) =>
               /\ hist' = Append(hist, [i |-> i, j |-> j, entry |-> heap[Ac][j][i],
                                        pivot |-> heap[Ac][i][i], multi |-> multi'])
               /\ pc' = "for_k"
        /\ pc # "test" => hist' = hist \/ hist' = <<>>
      ]_vars

\* A 3x3 call about to return that processed two pairs and skipped one.
C7_Witness ==
    /\ pc = "return"
    /\ n = 3
    /\ Len(hist) = 2
    /\ cant_op = PairOps(hist, 2, 3)
    /\ cant_op > 0

\* The division recorded at position x of the history has been stored.
Stored(x) == x < Len(hist) \/ pc # "for_k"

\* C8: a division by a zero pivot is executed like any other: it happens
\* only for a nonzero entry, its result is an infinity or NaN, that value is
\* stored at Ac[j][i] and makes the rest of row j non-finite for good, nothing
\* is printed, and the call returns a triple (L, U, count).
C8_ZeroPivotUnguarded ==
    /\ \A x \in 1..Len(hist) :
        /\ NonZero(hist[x].entry)
        /\ hist[x].pivot = Zero =>
            /\ ~IsFinite(hist[x].multi)
            /\ (Stored(x) /\ Ac # 0) =>
                   \A c \in hist[x].i .. n - 1 : ~IsFinite(heap[Ac][hist[x].j][c])
            /\ (pc = "returned") =>
                /\ Last # None
                /\ ~IsFinite(Last[1][hist[x].j][hist[x].i])
                /\ \A c \in hist[x].j .. Rows(given) - 1 : ~IsFinite(Last[2][hist[x].j][c])
                /\ Last[3] = PairOps(hist, Len(hist), Rows(given))
    /\ (caller = "test" /\ Rows(given) = Cols(given)) => stdout = <<>>

\* A call that divided by a zero pivot has returned its triple.
C8_Witness ==
    /\ pc = "returned"
    /\ ZeroDiv
    /\ Last # None
    /\ \E x \in 1..Len(hist) : hist[x].pivot = Zero /\ hist[x].multi = NegInf
    /\ \E x \in 1..Len(hist) : hist[x].pivot = Zero /\ IsNaN(hist[x].multi)

\* The multiplier recorded for the pair (pi, pj), 0 when the pair was skipped.
MultiOf(h, pi, pj) ==
    IF \E x \in 1..Len(h) : h[x].i = pi /\ h[x].j = pj
    THEN h[CHOOSE x \in 1..Len(h) : h[x].i = pi /\ h[x].j = pj].multi
    ELSE Zero

\* C9: while pivot column i is processed a step writes Ac only at row j > i
\* and at a column >= i; when the factors are extracted the strictly-lower
\* part of Ac holds the multipliers (0 for a skipped pair) and L and U are
\* that part plus the identity and the upper part.
C9_InPlacePacking ==
    [][ /\ pc \in {"for_i", "for_j", "test", "for_k"} =>
               \A r \in Idx(m) : \A c \in Idx(n) :
                   heap'[Ac][r][c] # heap[Ac][r][c] => (r = j /\ r > i /\ c >= i)
        /\ pc = "extract" =>
               /\ heap' = heap
               /\ \A r \in Idx(m) : \A c \in Idx(n) :
                   /\ r > c => /\ heap[Ac][r][c] = MultiOf(hist, c, r)
                               /\ L'[r][c] = heap[Ac][r][c]
                   /\ r <= c => U'[r][c] = heap[Ac][r][c]
      ]_vars

\* A 3x3 elimination about to extract its factors after storing a fractional
\* multiplier and skipping a pair.
C9_Witness ==
    /\ pc = "extract"
    /\ n = 3
    /\ Len(hist) = 2
    /\ \E x \in 1..Len(hist) : hist[x].multi[2] > 1
    /\ \E r \in Idx(m) : \E c \in Idx(n) : r > c /\ heap[Ac][r][c] = hist[1].multi

====
